---- MODULE Spec2Model ----
(***************************************************************************)
(* A model of converter.py: the recursive walk convert_all_posts and the   *)
(* IpynbConverter it drives.  Text is a sequence of one-character strings, *)
(* so that the string operations of the code (substring test, str.split,   *)
(* os.path.split, os.path.splitext, the title regular expression, the      *)
(* formatting of the header) are computed character by character.          *)
(***************************************************************************)
EXTENDS Integers, Sequences, FiniteSets, TLC

(***************************************************************************)
(* Program constants                                                       *)
(***************************************************************************)
AUTHOR == <<"E", "t", "h", "e", "n", " ", "L", "i", "u">>
REPO_NAME == <<"m", "a", "c", "h", "i", "n", "e", "-", "l", "e", "a", "r", "n", "i", "n", "g">>
BASE_URL == <<"h", "t", "t", "p", "s", ":", "/", "/", "g", "i", "t", "h", "u", "b", ".", "c", "o", "m", "/", "e", "t", "h", "e", "n", "8", "1", "8", "1", "/">>
CONVERTED == <<"-", "c", "o", "n", "v", "e", "r", "t", "e", "d">>
IPYNB == <<".", "i", "p", "y", "n", "b">>
BLOB_MASTER == <<"/", "b", "l", "o", "b", "/", "m", "a", "s", "t", "e", "r">>
TOC == <<"T", "a", "b", "l", "e", " ", "o", "f", " ", "C", "o", "n", "t", "e", "n", "t", "s">>
DELIM == <<"-", "-", "-">>
TITLE_KEY == <<"t", "i", "t", "l", "e", ":", " ">>
AUTHORS_KEY == <<"a", "u", "t", "h", "o", "r", "s", ":">>
TAGS_KEY == <<"t", "a", "g", "s", ":">>
DASH == <<"-", " ">>
CREATED_KEY == <<"c", "r", "e", "a", "t", "e", "d", "_", "a", "t", ":", " ">>
UPDATED_KEY == <<"u", "p", "d", "a", "t", "e", "d", "_", "a", "t", ":", " ">>
TLDR == <<"t", "l", "d", "r", ":", " ", "N", "o", "t", "h", "i", "n", "g", " ", "f", "o", "r", " ", "t", "l", "d", "r", " ", "s", "e", "c", "t", "i", "o", "n", " ", "a", "s", " ", "o", "f", " ", "n", "o", "w", ".">>
LINK_PREFIX == <<"L", "i", "n", "k", " ", "t", "o", " ", "o", "r", "i", "g", "i", "n", "a", "l", " ", "n", "o", "t", "e", "b", "o", "o", "k", ":", " ">>
PROJECT == <<"p", "r", "o", "j", "e", "c", "t">>
SEP == "/"
DOT == "."
NL == "\n"

(***************************************************************************)
(* Outcomes.  A call either returns a value or raises; err is "" on a      *)
(* normal return and the name of the exception otherwise.                  *)
(***************************************************************************)
Ok(v) == [err |-> "", val |-> v]
Raise(e) == [err |-> e, val |-> <<>>]

\* The classes that derive from Exception among the errors the converter raises.
ExceptionClasses ==
    {"ValueError", "JSONDecodeError", "KeyError", "IndexError",
     "UnboundLocalError", "ParserError"}

(***************************************************************************)
(* Strings                                                                 *)
(***************************************************************************)
Min(S) == CHOOSE x \in S : \A y \in S : x <= y
Max(S) == CHOOSE x \in S : \A y \in S : x >= y

\* sub occurs in s starting at index i
OccursAt(s, sub, i) ==
    /\ i >= 1
    /\ i + Len(sub) - 1 <= Len(s)
    /\ \A k \in 1..Len(sub) : s[i + k - 1] = sub[k]

Occurrences(s, sub) == {i \in 1..Len(s) : OccursAt(s, sub, i)}

\* Python: sub in s
Contains(s, sub) == Occurrences(s, sub) # {}

\* s[i:] with a 1-based i
From(s, i) == SubSeq(s, i, Len(s))

\* Python: s.split(sep) for a non-empty sep, left to right, non-overlapping
RECURSIVE StrSplit(_, _)
StrSplit(s, sep) ==
    IF ~Contains(s, sep)
    THEN <<s>>
    ELSE LET i == Min(Occurrences(s, sep))
         IN  <<SubSeq(s, 1, i - 1)>> \o StrSplit(From(s, i + Len(sep)), sep)

\* index of the last occurrence of character c in s, 0 when there is none
RFind(s, c) ==
    LET I == {i \in 1..Len(s) : s[i] = c}
    IN  IF I = {} THEN 0 ELSE Max(I)

\* posixpath.split(p)[1]: what follows the last slash
PathTail(p) == From(p, RFind(p, SEP) + 1)

\* posixpath.splitext(p): the extension starts at the last dot of the last
\* component, unless that component has only leading dots before it
SplitExt(p) ==
    LET sepIndex == RFind(p, SEP)
        dotIndex == RFind(p, DOT)
    IN  IF dotIndex > sepIndex
           /\ \E k \in (sepIndex + 1)..(dotIndex - 1) : p[k] # DOT
        THEN <<SubSeq(p, 1, dotIndex - 1), From(p, dotIndex)>>
        ELSE <<p, <<>>>>

\* posixpath.join(a, b)
PathJoin(a, b) ==
    IF Len(b) > 0 /\ b[1] = SEP THEN b
    ELSE IF Len(a) = 0 \/ a[Len(a)] = SEP THEN a \o b
    ELSE a \o <<SEP>> \o b

(***************************************************************************)
(* Version control: what `git log --format=%cd -1` prints for a path.  The *)
(* output is empty when no commit touches the path.                        *)
(***************************************************************************)
MonthNames == <<"Jan", "Feb", "Mar", "Apr", "May", "Jun",
                "Jul", "Aug", "Sep", "Oct", "Nov", "Dec">>

NoOutput == [empty |-> TRUE, mon |-> "Jan", day |-> 1, year |-> 1970]
DateOutput(mon, day, year) == [empty |-> FALSE, mon |-> mon, day |-> day, year |-> year]

Digit(n) == <<"0", "1", "2", "3", "4", "5", "6", "7", "8", "9">>[n + 1]

\* date_parser.parse(date_str): the calendar date of the printed commit date
DateParse(out) ==
    IF out.empty
    THEN Raise("ParserError")
    ELSE Ok([year |-> out.year,
             month |-> CHOOSE m \in 1..12 : MonthNames[m] = out.mon,
             day |-> out.day])

\* date_dt.strftime('%Y-%m-%d')
StrfTime(d) ==
    << Digit(d.year \div 1000), Digit((d.year \div 100) % 10),
       Digit((d.year \div 10) % 10), Digit(d.year % 10), "-",
       Digit(d.month \div 10), Digit(d.month % 10), "-",
       Digit(d.day \div 10), Digit(d.day % 10) >>

GitDateCmd(out) ==
    LET date_dt == DateParse(out)
    IN  IF date_dt.err # "" THEN date_dt ELSE Ok(StrfTime(date_dt.val))

(***************************************************************************)
(* IpynbConverter: the derivations of convert                              *)
(***************************************************************************)
\* _tags_and_github_link: the unpacking `_, file_path = path.split(REPO_NAME)`
\* needs exactly two parts
TagsAndGithubLink(path) ==
    LET parts == StrSplit(path, REPO_NAME)
    IN  IF Len(parts) # 2
        THEN Raise("ValueError")
        ELSE LET file_path == parts[2]
                 file_name == PathTail(file_path)
                 tags == SplitExt(file_name)[1]
                 link == BASE_URL \o REPO_NAME \o BLOB_MASTER \o file_path
             IN  Ok([tags |-> tags, link |-> link])

\* re.compile('# (.*)\n').match(source): anchored at the start; `.` matches
\* no line break, so the group runs up to the first line break
TitleMatch(source) ==
    LET nls == {j \in 3..Len(source) : source[j] = NL}
    IN  IF Len(source) >= 3 /\ source[1] = "#" /\ source[2] = " " /\ nls # {}
        THEN [matched |-> TRUE, group |-> SubSeq(source, 3, Min(nls) - 1)]
        ELSE [matched |-> FALSE, group |-> <<>>]

\* _title with `title = None` before the loop: nothing is raised when no
\* heading matches
RECURSIVE TitleLoopInitialised(_, _, _, _)
TitleLoopInitialised(cells, i, bound, title) ==
    IF i > Len(cells)
    THEN IF bound THEN Ok(title) ELSE Ok(<<"N", "o", "n", "e">>)
    ELSE LET cell == cells[i]
         IN  IF cell.cell_type # "markdown"
             THEN TitleLoopInitialised(cells, i + 1, bound, title)
             ELSE IF Len(cell.source) = 0
             THEN Raise("IndexError")
             ELSE LET matched == TitleMatch(cell.source[1])
                  IN  IF ~matched.matched
                      THEN TitleLoopInitialised(cells, i + 1, bound, title)
                      ELSE IF matched.group # TOC
                      THEN Ok(matched.group)
                      ELSE TitleLoopInitialised(cells, i + 1, TRUE, matched.group)

\* The loop of _title from cell i on; bound tells whether the local `title`
\* has been assigned, title its value
RECURSIVE TitleLoop(_, _, _, _)
TitleLoop(cells, i, bound, title) ==
    IF i > Len(cells)
    THEN IF bound THEN Ok(title) ELSE Raise("UnboundLocalError")
    ELSE LET cell == cells[i]
         IN  IF cell.cell_type # "markdown"
             THEN TitleLoop(cells, i + 1, bound, title)
             ELSE IF Len(cell.source) = 0
             THEN Raise("IndexError")
             ELSE LET matched == TitleMatch(cell.source[1])
                  IN  IF ~matched.matched
                      THEN TitleLoop(cells, i + 1, bound, title)
                      ELSE IF matched.group # TOC
                      THEN Ok(matched.group)
                      ELSE TitleLoop(cells, i + 1, TRUE, matched.group)

Title(notebook) ==
    IF "cells" \notin DOMAIN notebook
    THEN Raise("KeyError")
    ELSE TitleLoop(notebook.cells, 1, FALSE, <<>>)

\* every line terminated, the last one too
TerminateLinesAll(header_text) ==
    [k \in 1..Len(header_text) |-> header_text[k] \o <<NL>>]

\* [text + '\n' for text in header_text[:-1]] + [header_text[-1]]
TerminateLines(header_text) ==
    [k \in 1..Len(header_text) |->
        IF k < Len(header_text) THEN header_text[k] \o <<NL>> ELSE header_text[k]]

ConstructHeader(title, tags, date_created, date_updated) ==
    LET header_text ==
            << DELIM,
               TITLE_KEY \o title,
               AUTHORS_KEY,
               DASH \o AUTHOR,
               TAGS_KEY,
               DASH \o tags,
               CREATED_KEY \o date_created,
               UPDATED_KEY \o date_updated,
               TLDR,
               DELIM >>
    IN  [cell_type |-> "raw", metadata |-> {}, source |-> TerminateLines(header_text)]

ConstructGithubLinkCell(link) ==
    [cell_type |-> "markdown", metadata |-> {}, source |-> <<LINK_PREFIX \o link>>]

\* json.load of a file's text, json.dump of a document
JsonLoad(text) == IF text.valid THEN Ok(text.value) ELSE Raise("JSONDecodeError")
JsonDump(notebook) == [valid |-> TRUE, value |-> notebook]

\* the marker inserted whatever the flag
OutputPathAlwaysCopy(path, inplace) ==
    LET split == SplitExt(path) IN split[1] \o CONVERTED \o split[2]

\* the path convert computes for the output
OutputPath(path, inplace) ==
    IF inplace THEN path
    ELSE LET split == SplitExt(path) IN split[1] \o CONVERTED \o split[2]

\* the two cells added after the cells of the notebook
PrependCellsAppended(notebook, header, link_cell) ==
    [notebook EXCEPT !.cells = @ \o <<header, link_cell>>]

\* notebook['cells'] = [header] + [link cell] + notebook['cells']
PrependCells(notebook, header, link_cell) ==
    [notebook EXCEPT !.cells = <<header, link_cell>> \o @]

\* IpynbConverter.convert(path): created and updated are the outputs of the
\* two git queries, text the text of the file at path.  The value is the
\* returned notebook and the attributes set on the converter.
Convert(path, inplace, created, updated, text) ==
    LET date_created == GitDateCmd(created)
        date_updated == GitDateCmd(updated)
        tl == TagsAndGithubLink(path)
        loaded == JsonLoad(text)
        title == Title(loaded.val)
    IN  IF date_created.err # "" THEN Raise(date_created.err)
        ELSE IF date_updated.err # "" THEN Raise(date_updated.err)
        ELSE IF tl.err # "" THEN Raise(tl.err)
        ELSE IF loaded.err # "" THEN Raise(loaded.err)
        ELSE IF title.err # "" THEN Raise(title.err)
        ELSE Ok([notebook |->
                    PrependCells(loaded.val,
                        ConstructHeader(title.val, tl.val.tags,
                                        date_created.val, date_updated.val),
                        ConstructGithubLinkCell(tl.val.link)),
                 title_ |-> title.val,
                 tags_ |-> tl.val.tags,
                 github_link_ |-> tl.val.link,
                 date_created_ |-> date_created.val,
                 date_updated_ |-> date_updated.val,
                 path_ |-> OutputPath(path, inplace)])

(***************************************************************************)
(* Bounds and inputs                                                       *)
(***************************************************************************)
MaxCells == 2
MaxRuns == 2
MaxFiles == 3

KnowledgeRepoPath == <<"/", "k">>

\* source roots, one below the repository name and one not
Roots == { <<SEP>> \o REPO_NAME, <<"/", "m", "l">> }

\* entries below the root, by their path relative to it
NameA == <<"a">> \o IPYNB
NameAConverted == <<"a">> \o CONVERTED \o IPYNB
NameText == <<"n", ".", "t", "x", "t">>
NameRepo == REPO_NAME \o IPYNB
NameSub == <<"t">>
NameC == <<"c">> \o IPYNB
Names == {NameA, NameAConverted, NameText, NameRepo, NameC}

\* the entries of NameSub live in the sub-directory
PathOf(root, name) ==
    IF name = NameC
    THEN PathJoin(PathJoin(root, NameSub), name)
    ELSE PathJoin(root, name)

Line(hashes, text, nl) ==
    hashes \o text \o (IF nl THEN <<NL>> ELSE <<>>)

Cell(type, meta, source) == [cell_type |-> type, metadata |-> meta, source |-> source]

CellPool ==
    { Cell("markdown", {}, <<Line(<<"#", " ">>, TOC, TRUE)>>),
      Cell("markdown", {}, <<Line(<<"#", " ">>, <<"T">>, TRUE), <<"x", NL>>>>),
      Cell("markdown", {}, <<Line(<<"#", " ">>, <<"U">>, TRUE)>>),
      Cell("markdown", {}, <<Line(<<"#", "#", " ">>, <<"S">>, TRUE)>>),
      Cell("markdown", {}, <<Line(<<"#", " ">>, <<"W">>, FALSE)>>),
      Cell("markdown", {}, <<>>),
      Cell("code", {"collapsed"}, <<Line(<<"#", " ">>, <<"V">>, TRUE)>>) }

CellSeqs(n) == UNION {[1..k -> CellPool] : k \in 0..n}

Notebook(cells) == [cells |-> cells, nbformat |-> 4, metadata |-> {"kernelspec"}]
NotebookWithoutCells == [nbformat |-> 4, metadata |-> {"kernelspec"}]

MalformedText == [valid |-> FALSE, value |-> NotebookWithoutCells]

TitledCells == <<Cell("markdown", {}, <<Line(<<"#", " ">>, <<"T">>, TRUE)>>)>>
UntitledCells == <<Cell("code", {}, <<<<"x", NL>>>>)>>

\* texts of a notebook that stands alone in the tree, and of one among others
AllTexts ==
    {JsonDump(Notebook(cs)) : cs \in CellSeqs(MaxCells)}
        \cup {JsonDump(NotebookWithoutCells), MalformedText}
FewTexts ==
    {JsonDump(Notebook(TitledCells)), JsonDump(Notebook(UntitledCells)), MalformedText}

D1 == DateOutput("Mar", 5, 2017)
D2 == DateOutput("Nov", 30, 2018)
Histories ==
    { [created |-> NoOutput, updated |-> NoOutput],
      [created |-> NoOutput, updated |-> D2],
      [created |-> D1, updated |-> D1],
      [created |-> D1, updated |-> D2] }

TextsOf(name, names) ==
    IF name = NameText THEN {MalformedText}
    ELSE IF name = NameAConverted THEN {JsonDump(Notebook(TitledCells))}
    ELSE IF names = {name} THEN AllTexts
    ELSE IF name = NameA THEN FewTexts
    ELSE {JsonDump(Notebook(TitledCells)), MalformedText}

\* a path that is never committed has no history
HistoriesOf(name) ==
    IF name \in {NameText, NameAConverted}
    THEN {[created |-> NoOutput, updated |-> NoOutput]}
    ELSE IF name = NameA THEN Histories
    ELSE {[created |-> NoOutput, updated |-> NoOutput], [created |-> D1, updated |-> D2]}

Dir == [kind |-> "dir", text |-> MalformedText]
File(text) == [kind |-> "file", text |-> text]

\* the directories of a tree that holds the entries names
DirsOf(root, names) ==
    {root} \cup (IF NameC \in names THEN {PathJoin(root, NameSub)} ELSE {})

(***************************************************************************)
(* State                                                                   *)
(***************************************************************************)
VARIABLES
    root,       \* ml_repo_path, the root of the walk
    inplace,    \* the --inplace flag
    fs,         \* the file system: path -> directory or file with its text
    git,        \* file path -> the outputs of the two git log queries
    pc,         \* "idle", "walk", "converted" (convert returned, add is next), "aborted"
    stack,      \* the pending calls of convert_all_posts, first is next
    conv,       \* the attributes of the converter and the notebook it returned
    call,       \* the last call of convert: its path, the text it read, its outcome
    passed,     \* the paths passed to convert in this run, in order
    log,        \* the paths printed as 'Skipping: ...' in this run, in order
    added,      \* the invocations of `knowledge_repo add` in this run, in order
    count,      \* file path -> the number of runs that registered it
    runs,       \* the number of runs started
    fs0,        \* the file system when the current run started
    fsInit      \* the file system before the first run

vars == <<root, inplace, fs, git, pc, stack, conv, call, passed, log, added,
          count, runs, fs0, fsInit>>

NoConv == Raise("none")
NoCall == [path |-> <<>>, text |-> MalformedText, res |-> Raise("none")]

\* the texts and histories an entry ranges over; one value when it is absent
Texts(name, names) ==
    IF name \in names THEN TextsOf(name, names) ELSE {MalformedText}
Hists(name, names) ==
    IF name \in names THEN HistoriesOf(name) ELSE {[created |-> NoOutput, updated |-> NoOutput]}

Init ==
    /\ root \in Roots
    /\ inplace \in BOOLEAN
    /\ \E names \in {N \in SUBSET Names : Cardinality(N) <= MaxFiles} :
       \E tA \in Texts(NameA, names), tR \in Texts(NameRepo, names),
          tC \in Texts(NameC, names), tV \in Texts(NameAConverted, names),
          tT \in Texts(NameText, names) :
       \E hA \in Hists(NameA, names), hR \in Hists(NameRepo, names),
          hC \in Hists(NameC, names), hV \in Hists(NameAConverted, names),
          hT \in Hists(NameText, names) :
         LET files == {PathOf(root, n) : n \in names}
             nameOf(p) == CHOOSE n \in names : PathOf(root, n) = p
             text(n) == CASE n = NameA -> tA [] n = NameRepo -> tR [] n = NameC -> tC
                          [] n = NameAConverted -> tV [] n = NameText -> tT
             hist(n) == CASE n = NameA -> hA [] n = NameRepo -> hR [] n = NameC -> hC
                          [] n = NameAConverted -> hV [] n = NameText -> hT
         IN  /\ fs = [p \in files \cup DirsOf(root, names) |->
                         IF p \in files THEN File(text(nameOf(p))) ELSE Dir]
             /\ git = [p \in files |-> hist(nameOf(p))]
             /\ count = [p \in files |-> 0]
    /\ pc = "idle"
    /\ stack = <<>>
    /\ conv = NoConv
    /\ call = NoCall
    /\ passed = <<>>
    /\ log = <<>>
    /\ added = <<>>
    /\ runs = 0
    /\ fs0 = fs
    /\ fsInit = fs

(***************************************************************************)
(* convert_all_posts                                                       *)
(***************************************************************************)
IsDir(path) == path \in DOMAIN fs /\ fs[path].kind = "dir"

\* os.listdir(path), joined to path: the entries directly below it
Children(path) ==
    {p \in DOMAIN fs :
        /\ Len(p) > Len(path) + 1
        /\ SubSeq(p, 1, Len(path) + 1) = path \o <<SEP>>
        /\ SEP \notin {p[k] : k \in (Len(path) + 2)..Len(p)}}

\* the orders in which os.listdir may list a set of entries
Orders(S) ==
    {o \in [1..Cardinality(S) -> S] : \A i, j \in 1..Cardinality(S) : o[i] = o[j] => i = j}

\* the extension test alone
EligibleByExtension(path) == SplitExt(path)[2] = IPYNB

\* the test of lines 38 to 40 on a path that is no directory
Eligible(path) ==
    /\ ~Contains(path, CONVERTED)
    /\ SplitExt(path)[2] = IPYNB

\* `except ValueError`: the lookup and name errors are let through
CaughtValueError(e) == e \in {"ValueError", "JSONDecodeError", "ParserError"}

\* `except Exception` catches the classes that derive from Exception
Caught(e) == e \in ExceptionClasses

\* the call returns to its caller: the next pending call, or the end of the run
Return(rest) ==
    /\ stack' = rest
    /\ pc' = IF rest = <<>> THEN "idle" ELSE "walk"

\* main: a run of convert_all_posts over the root
StartRun ==
    /\ pc = "idle"
    /\ runs < MaxRuns
    /\ runs' = runs + 1
    /\ stack' = <<root>>
    /\ pc' = "walk"
    /\ fs0' = fs
    /\ passed' = <<>>
    /\ log' = <<>>
    /\ added' = <<>>
    /\ call' = NoCall
    /\ UNCHANGED <<root, inplace, fs, git, conv, count, fsInit>>

\* lines 33 to 36: a directory, its entries are visited in listing order
VisitDir ==
    /\ pc = "walk"
    /\ IsDir(Head(stack))
    /\ \E files \in Orders(Children(Head(stack))) :
         Return(files \o Tail(stack))
    /\ UNCHANGED <<root, inplace, fs, git, conv, call, passed, log, added,
                   count, runs, fs0, fsInit>>

\* lines 38 to 40: a file with the marker, or without the notebook extension
SkipFile ==
    /\ pc = "walk"
    /\ ~IsDir(Head(stack))
    /\ ~Eligible(Head(stack))
    /\ Return(Tail(stack))
    /\ UNCHANGED <<root, inplace, fs, git, conv, call, passed, log, added,
                   count, runs, fs0, fsInit>>

\* lines 41 to 43 and 45 to 47: the converter is built and convert is called;
\* an exception it raises is printed with the path when it is caught
ConvertFile ==
    /\ pc = "walk"
    /\ ~IsDir(Head(stack))
    /\ Eligible(Head(stack))
    /\ LET path == Head(stack)
           res == Convert(path, inplace, git[path].created, git[path].updated,
                          fs[path].text)
       IN  /\ call' = [path |-> path, text |-> fs[path].text, res |-> res]
           /\ passed' = Append(passed, path)
           /\ IF res.err = ""
              THEN /\ conv' = res
                   /\ pc' = "converted"
                   /\ UNCHANGED <<stack, log>>
              ELSE IF Caught(res.err)
              THEN /\ log' = Append(log, path)
                   /\ Return(Tail(stack))
                   /\ UNCHANGED conv
              ELSE /\ pc' = "aborted"
                   /\ UNCHANGED <<stack, log, conv>>
    /\ UNCHANGED <<root, inplace, fs, git, added, count, runs, fs0, fsInit>>

\* os.remove(path) applied to a file system
Remove(f, path) == [p \in DOMAIN f \ {path} |-> f[p]]

\* add without its os.remove
AfterAddKept(f, path, notebook, inpl) ==
    [p \in DOMAIN f \cup {path} |->
        IF p = path THEN File(JsonDump(notebook)) ELSE f[p]]

\* the file system after add: the notebook written to _path, and removed
\* again when the conversion is not in place
AfterAdd(f, path, notebook, inpl) ==
    LET written == [p \in DOMAIN f \cup {path} |->
                       IF p = path THEN File(JsonDump(notebook)) ELSE f[p]]
    IN  IF ~inpl THEN Remove(written, path) ELSE written

\* line 44, IpynbConverter.add: the notebook is written, the external command
\* runs to its end with an exit status nobody reads
AddFile ==
    /\ pc = "converted"
    /\ \E status \in {0, 1} :
         added' = Append(added,
                    [source |-> Head(stack),
                     file |-> conv.val.path_,
                     text |-> JsonDump(conv.val.notebook),
                     title |-> conv.val.title_,
                     destination |-> PathJoin(PathJoin(KnowledgeRepoPath, PROJECT),
                                              conv.val.tags_),
                     status |-> status])
    /\ fs' = AfterAdd(fs, conv.val.path_, conv.val.notebook, inplace)
    /\ count' = [count EXCEPT ![Head(stack)] = @ + 1]
    /\ Return(Tail(stack))
    /\ UNCHANGED <<root, inplace, git, conv, call, passed, log, runs, fs0, fsInit>>

Next == StartRun \/ VisitDir \/ SkipFile \/ ConvertFile \/ AddFile

Spec == Init /\ [][Next]_vars

(***************************************************************************)
(* Properties                                                              *)
(***************************************************************************)
Range(seq) == {seq[i] : i \in DOMAIN seq}

\* how often x occurs in seq
Times(seq, x) == Cardinality({i \in DOMAIN seq : seq[i] = x})

EndsWith(s, suffix) ==
    Len(s) >= Len(suffix) /\ SubSeq(s, Len(s) - Len(suffix) + 1, Len(s)) = suffix

\* convert was called in this run and returned a notebook
Converted == call.path # <<>> /\ call.res.err = ""

\* both git queries of the last call printed a date
GitPrinted == ~git[call.path].created.empty /\ ~git[call.path].updated.empty

\* C1: when convert succeeds on a document D, the cells of the returned
\* document are the metadata cell, the link cell and then the cells of D in
\* their order, and every other top-level field of D is unchanged.
C1_TwoCellsPrepended ==
    Converted =>
        LET D == call.text.value
            N == call.res.val.notebook
        IN  /\ Len(N.cells) = Len(D.cells) + 2
            /\ N.cells[1].cell_type = "raw"
            /\ N.cells[1].source[1] = DELIM \o <<NL>>
            /\ N.cells[2].cell_type = "markdown"
            /\ N.cells[2].source = <<LINK_PREFIX \o call.res.val.github_link_>>
            /\ \A k \in 1..Len(D.cells) : N.cells[k + 2] = D.cells[k]
            /\ DOMAIN N = DOMAIN D
            /\ \A key \in DOMAIN D \ {"cells"} : N[key] = D[key]

C1_Witness ==
    /\ Converted
    /\ Len(call.text.value.cells) = MaxCells
    /\ call.text.value.cells[1] # call.text.value.cells[2]

\* the cells whose heading _title is to accept: markdown, first line a
\* level-1 heading, text other than the table of contents
Heading(cell) ==
    IF cell.cell_type = "markdown" /\ Len(cell.source) > 0
    THEN TitleMatch(cell.source[1])
    ELSE [matched |-> FALSE, group |-> <<>>]

TitleCells(cells) ==
    {i \in 1..Len(cells) : Heading(cells[i]).matched /\ Heading(cells[i]).group # TOC}

\* C2: the title is the heading text of the first markdown cell, in cell
\* order, whose first line is a level-1 heading other than "Table of
\* Contents"; a "Table of Contents" heading is never the title, also when it
\* is the only or the last heading of the notebook.
C2_TitleIsFirstRealHeading ==
    Converted =>
        LET cells == call.text.value.cells
        IN  /\ call.res.val.title_ # TOC
            /\ TitleCells(cells) # {}
            /\ call.res.val.title_ = Heading(cells[Min(TitleCells(cells))]).group

\* the notebooks of a tree that convert_all_posts is to convert
Notebooks(f) ==
    {p \in DOMAIN f : f[p].kind = "file" /\ ~Contains(p, CONVERTED) /\ EndsWith(p, IPYNB)}

\* a notebook that nothing prevents from being converted
Sound(p) ==
    /\ fs0[p].text = JsonDump(Notebook(TitledCells))
    /\ ~git[p].created.empty /\ ~git[p].updated.empty
    /\ Cardinality(Occurrences(p, REPO_NAME)) = 1

\* C3: an error raised while a notebook is converted never aborts the run: at
\* the end of a run every notebook of the tree was passed to the converter
\* once and is either registered once or printed as skipped once; a malformed
\* notebook is printed as skipped and a sound one is registered.
C3_ErrorsNeverAbort ==
    /\ pc # "aborted"
    /\ (pc = "idle" /\ runs > 0) =>
         \A p \in Notebooks(fs0) :
            /\ Times(passed, p) = 1
            /\ Times(log, p) + Cardinality({i \in DOMAIN added : added[i].source = p}) = 1
            /\ ~fs0[p].text.valid => Times(log, p) = 1
            /\ Sound(p) => Times(log, p) = 0

C3_Witness ==
    /\ pc = "idle"
    /\ Len(log) = 1
    /\ Len(added) = 1
    /\ ~fs0[log[1]].text.valid
    /\ Sound(added[1].source)
    /\ Cardinality(Notebooks(fs0)) = 2

\* C4: a file whose path contains '-converted' is never passed to convert,
\* and a file is passed to convert only if its extension is '.ipynb'.
C4_OnlyUnmarkedNotebooksConverted ==
    \A i \in DOMAIN passed :
        /\ \A k \in 1..Len(passed[i]) : ~OccursAt(passed[i], CONVERTED, k)
        /\ EndsWith(passed[i], IPYNB)

C4_Witness ==
    /\ pc = "idle"
    /\ runs > 0
    /\ passed # <<>>
    /\ \E p \in DOMAIN fs0 : fs0[p].kind = "file" /\ Contains(p, CONVERTED) /\ EndsWith(p, IPYNB)
    /\ \E p \in DOMAIN fs0 : fs0[p].kind = "file" /\ ~EndsWith(p, IPYNB)

\* C5: not in place, the file add wrote is the input path with '-converted'
\* before the extension and it is gone once add has completed, whatever the
\* exit status of the command; in place, add writes the input path itself,
\* the file holds the converted document and no file is created.
C5_TemporaryFileRemoved ==
    \A i \in DOMAIN added :
        LET r == added[i]
        IN  IF ~inplace
            THEN /\ \E head \in {SubSeq(r.source, 1, n) : n \in 0..Len(r.source)} :
                      /\ r.source = head \o IPYNB
                      /\ r.file = head \o CONVERTED \o IPYNB
                 /\ r.file \notin DOMAIN fs
            ELSE /\ r.file = r.source
                 /\ fs[r.file] = File(r.text)
                 /\ DOMAIN fs = DOMAIN fsInit

C5_Witness ==
    /\ ~inplace
    /\ \E i \in DOMAIN added : added[i].status = 1
    /\ \E i \in DOMAIN added : added[i].status = 0

\* a notebook none of whose markdown cells starts with a level-1 heading
NoHeading(text) ==
    /\ text.valid
    /\ "cells" \in DOMAIN text.value
    /\ \A i \in 1..Len(text.value.cells) : ~Heading(text.value.cells[i]).matched

LineBreaks(line) == Cardinality({k \in 1..Len(line) : line[k] = NL})

\* C7: the metadata cell is a raw cell with empty metadata whose source has
\* exactly 10 lines in the order delimiter, title, 'authors:', '- <author>',
\* 'tags:', '- <tag>', created_at, updated_at, tldr, delimiter; every line but
\* the last ends with a line break and the last is the bare delimiter.
C7_HeaderHasTenLines ==
    Converted =>
        LET v == call.res.val
            h == v.notebook.cells[1]
        IN  /\ h.cell_type = "raw"
            /\ h.metadata = {}
            /\ Len(h.source) = 10
            /\ \A k \in 1..9 :
                  /\ h.source[k][Len(h.source[k])] = NL
                  /\ LineBreaks(h.source[k]) = 1
            /\ h.source[1] = <<"-", "-", "-", NL>>
            /\ h.source[2] = TITLE_KEY \o v.title_ \o <<NL>>
            /\ h.source[3] = AUTHORS_KEY \o <<NL>>
            /\ h.source[4] = <<"-", " ">> \o AUTHOR \o <<NL>>
            /\ h.source[5] = TAGS_KEY \o <<NL>>
            /\ h.source[6] = <<"-", " ">> \o v.tags_ \o <<NL>>
            /\ h.source[7] = CREATED_KEY \o v.date_created_ \o <<NL>>
            /\ h.source[8] = UPDATED_KEY \o v.date_updated_ \o <<NL>>
            /\ h.source[9] = TLDR \o <<NL>>
            /\ h.source[10] = <<"-", "-", "-">>

C7_Witness ==
    /\ Converted
    /\ call.res.val.title_ = <<"U">>
    /\ call.res.val.tags_ = <<"a">>
    /\ call.res.val.date_created_ # call.res.val.date_updated_

\* C8: for a path that contains the anchor "machine-learning", the tag is the
\* file name of the suffix after the anchor without directories and
\* extension, and the link is base URL + repository name + '/blob/master' +
\* that suffix, also when the anchor occurs more than once in the path.
C8_TagAndLinkFromAnchor ==
    (call.path # <<>> /\ Contains(call.path, REPO_NAME) /\ GitPrinted) =>
        /\ call.res.err # "ValueError"
        /\ call.res.err = "" =>
             \E i \in Occurrences(call.path, REPO_NAME) :
                LET suffix == From(call.path, i + Len(REPO_NAME))
                IN  /\ call.res.val.tags_ = SplitExt(PathTail(suffix))[1]
                    /\ call.res.val.github_link_ =
                          BASE_URL \o REPO_NAME \o BLOB_MASTER \o suffix

\* C9: not in place, a complete run leaves the source tree as it found it:
\* every file that existed before the run still exists with its contents and
\* no new file remains, also when '<name>-converted.ipynb' already exists
\* next to '<name>.ipynb'.
C9_TreeUntouched ==
    (~inplace /\ pc = "idle") => fs = fsInit

\* the notebook a file holds
Cells(f, p) == f[p].text.value.cells

\* C10: in place, the marker does not stop reprocessing: once k runs have
\* registered a notebook, its cells are k pairs of metadata cell and link
\* cell followed by the original cells in their order, every pair carrying
\* the same title, and a notebook registered by one run is registered by
\* every run.
C10_InPlaceRunsStack ==
    inplace =>
        \A p \in DOMAIN count :
            (fsInit[p].text.valid /\ "cells" \in DOMAIN fsInit[p].text.value) =>
                LET k == count[p]
                    cells == Cells(fs, p)
                    orig == Cells(fsInit, p)
                IN  /\ Len(cells) = Len(orig) + 2 * k
                    /\ \A n \in 1..Len(orig) : cells[2 * k + n] = orig[n]
                    /\ \A j \in 1..k :
                          /\ cells[2 * j - 1].cell_type = "raw"
                          /\ cells[2 * j - 1].source[2] = cells[1].source[2]
                          /\ cells[2 * j].cell_type = "markdown"
                          /\ cells[2 * j].source = cells[2].source
                    /\ (pc = "idle" /\ k > 0) => k = runs

C10_Witness ==
    /\ inplace
    /\ pc = "idle"
    /\ runs = MaxRuns
    /\ \E p \in DOMAIN count :
          /\ count[p] = MaxRuns
          /\ Len(Cells(fsInit, p)) = MaxCells
          /\ Len(Cells(fs, p)) = MaxCells + 2 * MaxRuns

====
